---- MODULE Spec2Model ----
(***************************************************************************)
(* Live Audio: the Controller / Output lifecycle and sound dispatch.       *)
(*                                                                         *)
(* The program runs on one JavaScript thread.  An async function runs      *)
(* synchronously up to its first await; what follows an await is a job of  *)
(* the microtask queue, which is served first in, first out.  A call of    *)
(* the API may be issued between any two jobs.  The promise returned by    *)
(* AudioContext.resume() is settled by the platform, at a time and with an *)
(* outcome the program does not control.                                   *)
(***************************************************************************)
EXTENDS Integers, Sequences, FiniteSets

\* ------------------------------------------------------------- bounds ----

\* Async calls (acquireOutput, setVolume) issued in one behaviour of Spec.
MaxCalls == 3

\* Async calls (setVolume, playSound) issued in one behaviour of SpecPlay.
MaxPlayCalls == 2

\* Async calls (acquireOutput) issued in one behaviour of SpecShared.
MaxSharedCalls == 2

\* Async calls issued in one behaviour of SpecRegistry.
MaxRegistryCalls == 1

\* Async calls (acquireOutput) issued in one behaviour of SpecLifecycle.
MaxLifecycleCalls == 3

\* Async calls issued in one behaviour of SpecAnalysis.
MaxAnalysisCalls == 2

\* Async calls issued in one behaviour of SpecVisualization.
MaxVisualizationCalls == 2

\* Async calls issued in one behaviour of SpecRelease.
MaxReleaseCalls == 2

\* Async calls issued in one behaviour of SpecLive.
MaxLiveCalls == 2

\* Controllers constructed in one behaviour.
MaxControllers == 2

\* Host keys: the window objects handed to Audio.start.
Windows == {"w1", "w2"}

\* Volumes handed to setVolume, in tenths (5 is 0.5); one of them negative.
Volumes == {-5, 0, 5}

\* Sound objects (each has play and stop).
Sounds == {"s1", "s2"}

\* Analysis nodes handed to the analysis setter (0 is: none set).
AnalysisNodes == {1, 2}

\* A falsy value stored in the registry (addSound validates nothing).
Null == "null"

\* Names: "coin" is an ordinary name; "toString" is a name every plain
\* object inherits from Object.prototype.
Names == {"coin", "toString"}

\* The names an empty object literal {} answers through its prototype.
ProtoNames == {"toString"}

\* What such an inherited name yields: a function, truthy, with no play.
ProtoFn == "protoFn"

\* The result of reading a property that is nowhere on the chain.
Undefined == "undefined"

\* ----------------------------------------------------------- constants ---

\* #volume = 1.0
InitialVolume == 10

\* ------------------------------------------------------------- state -----

VARIABLES
    controllers,        \* the Controller objects, in order of construction
    contexts,           \* the AudioContext objects, in order of construction
    outputs,            \* the Output objects, in order of construction
    liveAudioContext,   \* window[contextKey], per window; 0 when unset
    hasAudioContext,    \* window.AudioContext || window.webkitAudioContext:
                        \* a property of the platform, the same on every window
    calls,              \* the async calls issued so far, with their frames
    microtasks,         \* the microtask queue: indices into calls
    everClosed          \* history: some context was closed

vars == <<controllers, contexts, outputs, liveAudioContext, hasAudioContext,
          calls, microtasks, everClosed>>

Controllers == 1..Len(controllers)
Contexts == 1..Len(contexts)
Outputs == 1..Len(outputs)
Calls == 1..Len(calls)

\* ------------------------------------------------------- pure helpers ----

\* this.#sounds = {}
EmptySounds == [n \in Names |-> Undefined]

\* this.#sounds[name]: the own property, else what the prototype answers.
Lookup(sounds, name) ==
    IF sounds[name] # Undefined THEN sounds[name]
    ELSE IF name \in ProtoNames THEN ProtoFn
    ELSE Undefined

\* A test that every registry read passes.
AlwaysTruthy(value) == TRUE

\* if (sound): JavaScript truthiness of a registry read.
Truthy(value) == value # Undefined /\ value # Null

\* sound.play is callable.
HasPlay(value) == value \in Sounds

\* sound.stop is callable.
HasStop(value) == value \in Sounds

\* The names of seq other than name, in their order.
Without(seq, name) == SelectSeq(seq, LAMBDA n : n # name)

\* Object.values(sounds).forEach(sound => sound.stop()): the values stopped
\* before the first one that has no stop method.
StoppedBy(sounds, keys) ==
    LET bad == {i \in 1..Len(keys) : ~HasStop(sounds[keys[i]])}
        upto == IF bad = {} THEN Len(keys)
                ELSE (CHOOSE i \in bad : \A j \in bad : i <= j) - 1
    IN  {sounds[keys[i]] : i \in 1..upto}

\* Some value of the registry has no stop method.
SomeUnstoppable(sounds, keys) ==
    \E i \in 1..Len(keys) : ~HasStop(sounds[keys[i]])

\* A mute test that lets a volume of exactly 0 through.
MutedStrict(volume) == volume < 0

\* if (this.#volume <= 0) return;
Muted(volume) == volume <= 0

\* !audioContext || audioContext.state === 'closed'
NeedsNewContext(cached) ==
    cached = 0 \/ contexts[cached].state = "closed"

\* Before any synchronous operation ran: the empty record of `last`.
NoLast ==
    [op |-> "none", name |-> "", value |-> Undefined, result |-> FALSE,
     list |-> <<>>, stopped |-> {}, threw |-> FALSE, pending |-> FALSE]

\* new Controller(window).  keys is Object.keys(this.#sounds): the own names
\* in order of insertion.  everAdded, lastSetNoOutput and last are history;
\* last is the latest synchronous operation with what it returned, and
\* whether an async call of the controller was pending when it ran.
\* created and disposed are the invocations of the onOutputCreated and
\* onOutputDisposed callbacks, each with its arguments (controller, output).
\* visualizers counts the Visualizer objects the controller constructed.
NewController(w) ==
    [window |-> w, output |-> 0, analysis |-> 0, sounds |-> EmptySounds,
     keys |-> <<>>, volume |-> InitialVolume, everAdded |-> {},
     lastSetNoOutput |-> FALSE, last |-> NoLast,
     created |-> <<>>, disposed |-> <<>>, visualizers |-> 0]

\* new Output(audioContext): a gain stage at unity, no analysis tap.
\* owner is history: the controller whose acquireOutput constructed it.
NewOutput(audioContext, c) ==
    [audioContext |-> audioContext, gain |-> InitialVolume,
     analysisNode |-> 0, owner |-> c]

\* output.setVolume(v): passes v through to the gain parameter.
OutputSetVolume(outs, o, v) == [outs EXCEPT ![o].gain = v]

\* output.disconnectAnalysis(): removes the attachment, if there is one.
OutputDisconnectAnalysis(outs, o) == [outs EXCEPT ![o].analysisNode = 0]

\* output.connectAnalysis(node): replaces any prior attachment.
OutputConnectAnalysis(outs, o, node) == [outs EXCEPT ![o].analysisNode = node]

\* The frame of an async call.  kind, c, volume, name, sound, audioContext
\* and output are the call's arguments and locals; pc is where it is
\* suspended; the rest is history (visualizer: the node an
\* enableVisualization connected, 0 if it connected none).
NewCall(kind, c) ==
    [kind |-> kind, c |-> c, pc |-> "start",
     volume |-> 0, name |-> "", sound |-> Undefined,
     audioContext |-> 0, output |-> 0,
     threw |-> FALSE, played |-> FALSE, ctxFailed |-> FALSE,
     volAtCall |-> controllers[c].volume,
     hadOutput |-> controllers[c].output # 0,
     neverAdded |-> FALSE, registered |-> FALSE,
     afterSet |-> controllers[c].lastSetNoOutput,
     pendingAtCall |-> {j \in Calls : calls[j].c = c /\ calls[j].pc # "done"
                                       /\ calls[j].kind = "acquireOutput"},
     afterFailure |-> \E j \in Calls : calls[j].c = c /\ calls[j].ctxFailed,
     visualizer |-> 0,
     resGain |-> 0, volAtRet |-> 0]

\* ------------------------------------------------------------- Init ------

Init ==
    /\ controllers = <<>>
    /\ contexts = <<>>
    /\ outputs = <<>>
    /\ liveAudioContext = [w \in Windows |-> 0]
    /\ hasAudioContext \in BOOLEAN
    /\ calls = <<>>
    /\ microtasks = <<>>
    /\ everClosed = FALSE

\* ------------------------------------------------- Audio.start -----------

\* Audio.start(options): return new Controller(options.window || globalThis)
Start(w) ==
    /\ Len(controllers) < MaxControllers
    /\ controllers' = Append(controllers, NewController(w))
    /\ UNCHANGED <<contexts, outputs, liveAudioContext, hasAudioContext,
                   calls, microtasks, everClosed>>

\* ------------------------------------------ getSharedAudioContext --------

\* getSharedAudioContext(window), up to its await or its return, run for the
\* frame `call` of controller c.  A cached open context is returned as is.
\* Otherwise a context is constructed: with no constructor on the window the
\* `new` throws a TypeError, which rejects the whole chain of callers; a
\* context that starts suspended parks the call on resume(), with the cache
\* still unset; a context that starts running is cached at once.
GetSharedAudioContext(c, call) ==
    LET w == controllers[c].window
        cached == liveAudioContext[w]
        k == Len(calls) + 1
        new == Len(contexts) + 1
    IN  IF ~NeedsNewContext(cached)
        THEN /\ calls' = Append(calls, [call EXCEPT !.pc = "acq",
                                                    !.audioContext = cached])
             /\ microtasks' = Append(microtasks, k)
             /\ UNCHANGED <<contexts, liveAudioContext>>
        ELSE IF ~hasAudioContext
        THEN /\ calls' = Append(calls, [call EXCEPT !.pc = "done",
                                                    !.threw = TRUE,
                                                    !.ctxFailed = TRUE])
             /\ UNCHANGED <<microtasks, contexts, liveAudioContext>>
        ELSE \E s \in {"running", "suspended"} :
             /\ contexts' = Append(contexts, [state |-> s, window |-> w])
             /\ IF s = "suspended"
                THEN /\ calls' = Append(calls, [call EXCEPT !.pc = "resume",
                                                    !.audioContext = new])
                     /\ UNCHANGED <<microtasks, liveAudioContext>>
                ELSE /\ liveAudioContext' = [liveAudioContext EXCEPT ![w] = new]
                     /\ calls' = Append(calls, [call EXCEPT !.pc = "acq",
                                                    !.audioContext = new])
                     /\ microtasks' = Append(microtasks, k)

\* The platform resolves the resume() promise call k waits on: the context
\* runs, and the rest of getSharedAudioContext becomes a microtask.
ResumeResolve(k) ==
    /\ calls[k].pc = "resume"
    /\ contexts[calls[k].audioContext].state = "suspended"
    /\ contexts' = [contexts EXCEPT ![calls[k].audioContext].state = "running"]
    /\ calls' = [calls EXCEPT ![k].pc = "gsac"]
    /\ microtasks' = Append(microtasks, k)
    /\ UNCHANGED <<controllers, outputs, liveAudioContext, hasAudioContext,
                   everClosed>>

\* A provider that stores the context before awaiting resume(), so that a
\* context whose resumption failed stays cached.
ResumeRejectCached(k) ==
    /\ calls[k].pc = "resume"
    /\ calls' = [calls EXCEPT ![k].pc = "done", ![k].threw = TRUE,
                              ![k].ctxFailed = TRUE]
    /\ liveAudioContext' =
           [liveAudioContext EXCEPT ![controllers[calls[k].c].window] =
                                        calls[k].audioContext]
    /\ UNCHANGED <<controllers, contexts, outputs, hasAudioContext,
                   microtasks, everClosed>>

\* The platform rejects the resume() promise (autoplay policy): the await
\* throws, getSharedAudioContext rejects, and so does every caller up the
\* chain; none of them writes anything on the way out.
ResumeReject(k) ==
    /\ calls[k].pc = "resume"
    /\ calls' = [calls EXCEPT ![k].pc = "done", ![k].threw = TRUE,
                              ![k].ctxFailed = TRUE]
    /\ UNCHANGED <<controllers, contexts, outputs, liveAudioContext,
                   hasAudioContext, microtasks, everClosed>>

\* A provider whose continuation is lost: the job leaves the queue and the
\* call stays where it was.
GetSharedResumedLost ==
    /\ microtasks # <<>>
    /\ calls[Head(microtasks)].pc = "gsac"
    /\ microtasks' = Tail(microtasks)
    /\ UNCHANGED <<controllers, contexts, outputs, liveAudioContext,
                   hasAudioContext, calls, everClosed>>

\* getSharedAudioContext after its await: window[contextKey] = audioContext,
\* then return it to acquireOutput, which resumes one microtask later.
GetSharedResumed ==
    /\ microtasks # <<>>
    /\ LET k == Head(microtasks)
           w == controllers[calls[k].c].window
       IN  /\ calls[k].pc = "gsac"
           /\ liveAudioContext' =
                  [liveAudioContext EXCEPT ![w] = calls[k].audioContext]
           /\ calls' = [calls EXCEPT ![k].pc = "acq"]
           /\ microtasks' = Append(Tail(microtasks), k)
    /\ UNCHANGED <<controllers, contexts, outputs, hasAudioContext, everClosed>>

\* A script defines window.AudioContext on a platform that lacked it.
InstallAudioContext ==
    /\ ~hasAudioContext
    /\ hasAudioContext' = TRUE
    /\ UNCHANGED <<controllers, contexts, outputs, liveAudioContext,
                   calls, microtasks, everClosed>>

\* Code outside the library closes a context it can reach: the cached one,
\* or the one an Output exposes.
CloseContext(i) ==
    /\ contexts[i].state # "closed"
    /\ \/ \E w \in Windows : liveAudioContext[w] = i
       \/ \E o \in Outputs : outputs[o].audioContext = i
    /\ contexts' = [contexts EXCEPT ![i].state = "closed"]
    /\ everClosed' = TRUE
    /\ UNCHANGED <<controllers, outputs, liveAudioContext, hasAudioContext,
                   calls, microtasks>>

\* ------------------------------------------------------ Controller -------

\* acquireOutput(), up to its await or its return, run for the frame `call`:
\* an existing #output is returned at once (the caller resumes one microtask
\* later); otherwise the call goes through getSharedAudioContext.
AcquireOutputEnter(c, call) ==
    IF controllers[c].output # 0
    THEN /\ calls' = Append(calls, [call EXCEPT !.pc = "ret",
                                        !.output = controllers[c].output])
         /\ microtasks' = Append(microtasks, Len(calls) + 1)
         /\ UNCHANGED <<contexts, liveAudioContext>>
    ELSE GetSharedAudioContext(c, call)

\* A caller invokes controller.acquireOutput().
AcquireOutput(c) ==
    /\ AcquireOutputEnter(c, NewCall("acquireOutput", c))
    /\ UNCHANGED <<controllers, outputs, hasAudioContext, everClosed>>

\* acquireOutput after `await getSharedAudioContext(...)`: construct the
\* Output, store it in #output, give it the stored volume, connect the
\* analysis node if one is set, and return it.
AcquireOutputResumed ==
    /\ microtasks # <<>>
    /\ LET k == Head(microtasks)
           c == calls[k].c
           o == Len(outputs) + 1
           made == Append(outputs, NewOutput(calls[k].audioContext, c))
           withVolume == OutputSetVolume(made, o, controllers[c].volume)
       IN  /\ calls[k].pc = "acq"
           /\ outputs' = IF controllers[c].analysis # 0
                         THEN OutputConnectAnalysis(withVolume, o,
                                                    controllers[c].analysis)
                         ELSE withVolume
           /\ controllers' = [controllers EXCEPT ![c].output = o]
           /\ calls' = [calls EXCEPT ![k].pc = "ret", ![k].output = o]
           /\ microtasks' = Append(Tail(microtasks), k)
    /\ UNCHANGED <<contexts, liveAudioContext, hasAudioContext, everClosed>>

\* The caller of acquireOutput() receives the Output it awaited.
AcquireOutputReturned ==
    /\ microtasks # <<>>
    /\ LET k == Head(microtasks)
       IN  /\ calls[k].pc = "ret"
           /\ calls[k].kind = "acquireOutput"
           /\ calls' = [calls EXCEPT
                  ![k].pc = "done",
                  ![k].resGain = outputs[calls[k].output].gain,
                  ![k].volAtRet = controllers[calls[k].c].volume]
           /\ microtasks' = Tail(microtasks)
    /\ UNCHANGED <<controllers, contexts, outputs, liveAudioContext,
                   hasAudioContext, everClosed>>

\* A setVolume that stores nothing before the acquisition.
SetVolumeDeferred(c, volume) ==
    /\ AcquireOutputEnter(c, [NewCall("setVolume", c) EXCEPT !.volume = volume])
    /\ UNCHANGED <<controllers, outputs, hasAudioContext, everClosed>>

\* A setVolume that returns at a volume of at most 0, as playSound does.
SetVolumeLazy(c, volume) ==
    /\ controllers' = [controllers EXCEPT
           ![c].volume = volume,
           ![c].lastSetNoOutput = (controllers[c].output = 0)]
    /\ IF Muted(volume)
       THEN /\ calls' = Append(calls, [NewCall("setVolume", c) EXCEPT
                                          !.volume = volume, !.pc = "done"])
            /\ UNCHANGED <<microtasks, contexts, liveAudioContext>>
       ELSE AcquireOutputEnter(c, [NewCall("setVolume", c) EXCEPT
                                      !.volume = volume])
    /\ UNCHANGED <<outputs, hasAudioContext, everClosed>>

\* setVolume(volume), up to its await: store the volume, enter acquireOutput.
SetVolume(c, volume) ==
    /\ controllers' = [controllers EXCEPT
           ![c].volume = volume,
           ![c].lastSetNoOutput = (controllers[c].output = 0)]
    /\ AcquireOutputEnter(c, [NewCall("setVolume", c) EXCEPT !.volume = volume])
    /\ UNCHANGED <<outputs, hasAudioContext, everClosed>>

\* setVolume after `await this.acquireOutput()`: output.setVolume(volume),
\* on the Output this call was given, with this call's own argument.
SetVolumeResumed ==
    /\ microtasks # <<>>
    /\ LET k == Head(microtasks)
       IN  /\ calls[k].pc = "ret"
           /\ calls[k].kind = "setVolume"
           /\ outputs' = IF calls[k].output # 0
                         THEN OutputSetVolume(outputs, calls[k].output,
                                              calls[k].volume)
                         ELSE outputs
           /\ calls' = [calls EXCEPT
                  ![k].pc = "done",
                  ![k].resGain =
                      IF controllers[calls[k].c].output # 0
                      THEN outputs'[controllers[calls[k].c].output].gain
                      ELSE 0,
                  ![k].volAtRet = controllers[calls[k].c].volume]
           /\ microtasks' = Tail(microtasks)
    /\ UNCHANGED <<controllers, contexts, liveAudioContext, hasAudioContext,
                   everClosed>>

\* The record of a synchronous operation op(name) of controller c.
Last(c, op, name) ==
    [NoLast EXCEPT !.op = op, !.name = name,
                   !.pending = \E k \in Calls :
                                   calls[k].c = c /\ calls[k].pc # "done"]

\* addSound(name, value): this.#sounds[name] = value; return value.
AddSound(c, name, value) ==
    /\ controllers' = [controllers EXCEPT
           ![c].sounds[name] = value,
           ![c].keys = IF controllers[c].sounds[name] # Undefined
                       THEN @ ELSE Append(@, name),
           ![c].everAdded = @ \cup {name},
           ![c].last = [Last(c, "addSound", name) EXCEPT !.value = value]]
    /\ UNCHANGED <<contexts, outputs, liveAudioContext, hasAudioContext,
                   calls, microtasks, everClosed>>

\* playSound(name), up to its await or its return: nothing when muted; the
\* registry read; with a truthy value enter acquireOutput, else warn.
PlaySound(c, name) ==
    /\ LET call == [NewCall("playSound", c) EXCEPT
                       !.name = name,
                       !.neverAdded = name \notin controllers[c].everAdded,
                       !.registered =
                           HasPlay(Lookup(controllers[c].sounds, name))]
           sound == Lookup(controllers[c].sounds, name)
       IN  IF Muted(controllers[c].volume)
           THEN /\ calls' = Append(calls, [call EXCEPT !.pc = "done"])
                /\ UNCHANGED <<microtasks, contexts, liveAudioContext>>
           ELSE IF Truthy(sound)
           THEN AcquireOutputEnter(c, [call EXCEPT !.sound = sound])
           ELSE /\ calls' = Append(calls, [call EXCEPT !.pc = "done",
                                                       !.sound = sound])
                /\ UNCHANGED <<microtasks, contexts, liveAudioContext>>
    /\ UNCHANGED <<controllers, outputs, hasAudioContext, everClosed>>

\* playSound after `await this.acquireOutput()`: sound.play(output), on the
\* value read before the await.  A value with no play method makes the call
\* throw a TypeError.  resGain is history: the gain of the Output handed to
\* play, at that moment.
PlaySoundResumed ==
    /\ microtasks # <<>>
    /\ LET k == Head(microtasks)
       IN  /\ calls[k].pc = "ret"
           /\ calls[k].kind = "playSound"
           /\ calls' = [calls EXCEPT
                  ![k].pc = "done",
                  ![k].played = (calls[k].output # 0 /\ HasPlay(calls[k].sound)),
                  ![k].threw = (calls[k].output # 0 /\ ~HasPlay(calls[k].sound)),
                  ![k].resGain = IF calls[k].output # 0
                                 THEN outputs[calls[k].output].gain ELSE 0,
                  ![k].volAtRet = controllers[calls[k].c].volume]
           /\ microtasks' = Tail(microtasks)
    /\ UNCHANGED <<controllers, contexts, outputs, liveAudioContext,
                   hasAudioContext, everClosed>>

\* getSound(name): return this.#sounds[name].
GetSound(c, name) ==
    /\ controllers' = [controllers EXCEPT
           ![c].last = [Last(c, "getSound", name) EXCEPT
                           !.value = Lookup(controllers[c].sounds, name)]]
    /\ UNCHANGED <<contexts, outputs, liveAudioContext, hasAudioContext,
                   calls, microtasks, everClosed>>

\* listSounds(): return Object.keys(this.#sounds).
ListSounds(c) ==
    /\ controllers' = [controllers EXCEPT
           ![c].last = [Last(c, "listSounds", "") EXCEPT
                           !.list = controllers[c].keys]]
    /\ UNCHANGED <<contexts, outputs, liveAudioContext, hasAudioContext,
                   calls, microtasks, everClosed>>

\* removeSound(name): if (this.#sounds[name]) { delete this.#sounds[name];
\* return true; } return false.  The test is the truthiness of the read, the
\* delete removes an own property only.
RemoveSound(c, name) ==
    /\ IF Truthy(Lookup(controllers[c].sounds, name))
       THEN controllers' = [controllers EXCEPT
                ![c].sounds[name] = Undefined,
                ![c].keys = Without(@, name),
                ![c].last = [Last(c, "removeSound", name) EXCEPT
                                !.result = TRUE]]
       ELSE controllers' = [controllers EXCEPT
                ![c].last = Last(c, "removeSound", name)]
    /\ UNCHANGED <<contexts, outputs, liveAudioContext, hasAudioContext,
                   calls, microtasks, everClosed>>

\* A stopSound that also silences the Output, if there is one.
StopSoundSilencing(c, name) ==
    /\ LET sound == Lookup(controllers[c].sounds, name)
       IN  controllers' = [controllers EXCEPT
               ![c].last = [Last(c, "stopSound", name) EXCEPT
                   !.value = sound,
                   !.stopped = IF Truthy(sound) /\ HasStop(sound)
                               THEN {sound} ELSE {},
                   !.threw = Truthy(sound) /\ ~HasStop(sound)]]
    /\ outputs' = IF controllers[c].output # 0
                  THEN OutputSetVolume(outputs, controllers[c].output, 0)
                  ELSE outputs
    /\ UNCHANGED <<contexts, liveAudioContext, hasAudioContext,
                   calls, microtasks, everClosed>>

\* stopSound(name): sound.stop() on a truthy read, else a warning.  A truthy
\* value with no stop method makes the call throw a TypeError.
StopSound(c, name) ==
    /\ LET sound == Lookup(controllers[c].sounds, name)
       IN  controllers' = [controllers EXCEPT
               ![c].last = [Last(c, "stopSound", name) EXCEPT
                   !.value = sound,
                   !.stopped = IF Truthy(sound) /\ HasStop(sound)
                               THEN {sound} ELSE {},
                   !.threw = Truthy(sound) /\ ~HasStop(sound)]]
    /\ UNCHANGED <<contexts, outputs, liveAudioContext, hasAudioContext,
                   calls, microtasks, everClosed>>

\* stopAllSounds(): Object.values(this.#sounds).forEach(s => s.stop()).
StopAllSounds(c) ==
    /\ controllers' = [controllers EXCEPT
           ![c].last = [Last(c, "stopAllSounds", "") EXCEPT
               !.stopped = StoppedBy(controllers[c].sounds,
                                     controllers[c].keys),
               !.threw = SomeUnstoppable(controllers[c].sounds,
                                         controllers[c].keys)]]
    /\ UNCHANGED <<contexts, outputs, liveAudioContext, hasAudioContext,
                   calls, microtasks, everClosed>>

\* An analysis setter that stores the node and connects nothing.
SetAnalysisStoring(c, analysisNode) ==
    /\ controllers' = [controllers EXCEPT
           ![c].analysis = analysisNode,
           ![c].last = [Last(c, "setAnalysis", "") EXCEPT
                           !.result = controllers[c].output # 0]]
    /\ UNCHANGED <<contexts, outputs, liveAudioContext, hasAudioContext,
                   calls, microtasks, everClosed>>

\* set analysis(analysisNode): store the node and, if an Output exists,
\* connect it.  last.result tells whether an Output existed.
SetAnalysis(c, analysisNode) ==
    /\ controllers' = [controllers EXCEPT
           ![c].analysis = analysisNode,
           ![c].last = [Last(c, "setAnalysis", "") EXCEPT
                           !.result = controllers[c].output # 0]]
    /\ outputs' = IF controllers[c].output # 0
                  THEN OutputConnectAnalysis(outputs, controllers[c].output,
                                             analysisNode)
                  ELSE outputs
    /\ UNCHANGED <<contexts, liveAudioContext, hasAudioContext, calls,
                   microtasks, everClosed>>

\* ------------------------------------------------ visualization ---------

\* acquireOutput after its await, in the revision of the Controller that has
\* enableVisualization: construct the Output, store it in #output and give
\* it the stored volume; no analysis node is connected here.
AcquireOutputResumedUnconnected ==
    /\ microtasks # <<>>
    /\ LET k == Head(microtasks)
           c == calls[k].c
           o == Len(outputs) + 1
           made == Append(outputs, NewOutput(calls[k].audioContext, c))
       IN  /\ calls[k].pc = "acq"
           /\ outputs' = OutputSetVolume(made, o, controllers[c].volume)
           /\ controllers' = [controllers EXCEPT ![c].output = o]
           /\ calls' = [calls EXCEPT ![k].pc = "ret", ![k].output = o]
           /\ microtasks' = Append(Tail(microtasks), k)
    /\ UNCHANGED <<contexts, liveAudioContext, hasAudioContext, everClosed>>

\* enableVisualization(), up to its await: enter acquireOutput.
EnableVisualization(c) ==
    /\ AcquireOutputEnter(c, NewCall("enableVisualization", c))
    /\ UNCHANGED <<controllers, outputs, hasAudioContext, everClosed>>

\* An enableVisualization that constructs a Visualizer on every call.
EnableVisualizationResumedAlways ==
    /\ microtasks # <<>>
    /\ LET k == Head(microtasks)
           c == calls[k].c
           new == controllers[c].visualizers + 1
       IN  /\ calls[k].pc = "ret"
           /\ calls[k].kind = "enableVisualization"
           /\ controllers' = [controllers EXCEPT ![c].analysis = new,
                                                 ![c].visualizers = new]
           /\ outputs' = OutputConnectAnalysis(outputs, calls[k].output, new)
           /\ calls' = [calls EXCEPT ![k].pc = "done", ![k].visualizer = new]
           /\ microtasks' = Tail(microtasks)
    /\ UNCHANGED <<contexts, liveAudioContext, hasAudioContext, everClosed>>

\* enableVisualization after `await this.acquireOutput()`: with no #analysis
\* yet, construct a Visualizer, which may throw (caught: warn and return);
\* then output.connectAnalysis(this.#analysis), on the Output this call was
\* given.
EnableVisualizationResumed ==
    /\ microtasks # <<>>
    /\ LET k == Head(microtasks)
           c == calls[k].c
           new == controllers[c].visualizers + 1
       IN  /\ calls[k].pc = "ret"
           /\ calls[k].kind = "enableVisualization"
           /\ IF controllers[c].analysis # 0
              THEN /\ outputs' = OutputConnectAnalysis(outputs, calls[k].output,
                                                       controllers[c].analysis)
                   /\ calls' = [calls EXCEPT
                          ![k].pc = "done",
                          ![k].visualizer = controllers[c].analysis]
                   /\ UNCHANGED controllers
              ELSE \/ /\ controllers' = [controllers EXCEPT
                             ![c].analysis = new, ![c].visualizers = new]
                      /\ outputs' = OutputConnectAnalysis(outputs,
                                                          calls[k].output, new)
                      /\ calls' = [calls EXCEPT ![k].pc = "done",
                                                ![k].visualizer = new]
                   \/ /\ calls' = [calls EXCEPT ![k].pc = "done"]
                      /\ UNCHANGED <<controllers, outputs>>
           /\ microtasks' = Tail(microtasks)
    /\ UNCHANGED <<contexts, liveAudioContext, hasAudioContext, everClosed>>

\* disableVisualization(): if (this.#output) this.#output.disconnectAnalysis().
\* last.result tells whether an Output existed.
DisableVisualization(c) ==
    /\ controllers' = [controllers EXCEPT
           ![c].last = [Last(c, "disableVisualization", "") EXCEPT
                           !.result = controllers[c].output # 0]]
    /\ outputs' = IF controllers[c].output # 0
                  THEN OutputDisconnectAnalysis(outputs, controllers[c].output)
                  ELSE outputs
    /\ UNCHANGED <<contexts, liveAudioContext, hasAudioContext, calls,
                   microtasks, everClosed>>

\* ------------------------------------------- lifecycle callbacks ---------

\* An acquisition that constructs the Output and announces nothing.
AcquireOutputResumedSilent ==
    /\ microtasks # <<>>
    /\ LET k == Head(microtasks)
           c == calls[k].c
           o == Len(outputs) + 1
           made == Append(outputs, NewOutput(calls[k].audioContext, c))
       IN  /\ calls[k].pc = "acq"
           /\ outputs' = OutputSetVolume(made, o, controllers[c].volume)
           /\ controllers' = [controllers EXCEPT ![c].output = o]
           /\ calls' = [calls EXCEPT ![k].pc = "ret", ![k].output = o]
           /\ microtasks' = Append(Tail(microtasks), k)
    /\ UNCHANGED <<contexts, liveAudioContext, hasAudioContext, everClosed>>

\* acquireOutput after its await, on a Controller constructed with an
\* onOutputCreated callback: construct the Output, give it the stored
\* volume, store it in #output, invoke onOutputCreated(this, output), and
\* return it.
AcquireOutputResumedNotifying ==
    /\ microtasks # <<>>
    /\ LET k == Head(microtasks)
           c == calls[k].c
           o == Len(outputs) + 1
           made == Append(outputs, NewOutput(calls[k].audioContext, c))
       IN  /\ calls[k].pc = "acq"
           /\ outputs' = OutputSetVolume(made, o, controllers[c].volume)
           /\ controllers' = [controllers EXCEPT
                  ![c].output = o,
                  ![c].created = Append(@, <<c, o>>)]
           /\ calls' = [calls EXCEPT ![k].pc = "ret", ![k].output = o]
           /\ microtasks' = Append(Tail(microtasks), k)
    /\ UNCHANGED <<contexts, liveAudioContext, hasAudioContext, everClosed>>

\* A dispose that also closes the context of the Output it releases.
DisposeClosing(c) ==
    /\ controllers' = [controllers EXCEPT
           ![c].disposed = IF controllers[c].output # 0
                           THEN Append(@, <<c, controllers[c].output>>)
                           ELSE @,
           ![c].output = 0,
           ![c].last = [Last(c, "dispose", "") EXCEPT
                           !.result = controllers[c].output # 0]]
    /\ contexts' = IF controllers[c].output # 0
                   THEN [contexts EXCEPT
                            ![outputs[controllers[c].output].audioContext].state
                                = "closed"]
                   ELSE contexts
    /\ UNCHANGED <<outputs, liveAudioContext, hasAudioContext,
                   calls, microtasks, everClosed>>

\* A dispose that invokes the callback and keeps the Output.
DisposeKeeping(c) ==
    /\ controllers' = [controllers EXCEPT
           ![c].disposed = IF controllers[c].output # 0
                           THEN Append(@, <<c, controllers[c].output>>)
                           ELSE @,
           ![c].last = [Last(c, "dispose", "") EXCEPT
                           !.result = controllers[c].output # 0]]
    /\ UNCHANGED <<contexts, outputs, liveAudioContext, hasAudioContext,
                   calls, microtasks, everClosed>>

\* dispose(): if an Output exists, invoke onOutputDisposed(this, output) and
\* release the Output reference; otherwise nothing.  last.result tells
\* whether there was an Output to release.
Dispose(c) ==
    /\ controllers' = [controllers EXCEPT
           ![c].disposed = IF controllers[c].output # 0
                           THEN Append(@, <<c, controllers[c].output>>)
                           ELSE @,
           ![c].output = 0,
           ![c].last = [Last(c, "dispose", "") EXCEPT
                           !.result = controllers[c].output # 0]]
    /\ UNCHANGED <<contexts, outputs, liveAudioContext, hasAudioContext,
                   calls, microtasks, everClosed>>

\* ------------------------------------------------- specifications --------

\* One job of the microtask queue.
RunMicrotask ==
    \/ GetSharedResumed
    \/ AcquireOutputResumed
    \/ AcquireOutputReturned
    \/ SetVolumeResumed
    \/ PlaySoundResumed

\* The first controller of the page.
StartFirst == controllers = <<>> /\ Start("w1")

\* One Controller: acquisition and volume, with the platform settling
\* resume().
Next ==
    \/ StartFirst
    \/ \E c \in Controllers : Len(calls) < MaxCalls /\ AcquireOutput(c)
    \/ \E c \in Controllers, v \in {0, 5} :
           Len(calls) < MaxCalls /\ SetVolume(c, v)
    \/ \E k \in Calls : ResumeResolve(k)
    \/ \E k \in Calls : ResumeReject(k)
    \/ InstallAudioContext
    \/ GetSharedResumed
    \/ AcquireOutputResumed
    \/ AcquireOutputReturned
    \/ SetVolumeResumed

Spec == Init /\ [][Next]_vars

\* One Controller: playback by name, with volume changes in between.
NextPlay ==
    \/ StartFirst
    \/ \E c \in Controllers, v \in Volumes :
           Len(calls) < MaxPlayCalls /\ SetVolume(c, v)
    \/ \E c \in Controllers : AddSound(c, "coin", "s1")
    \/ \E c \in Controllers, n \in Names :
           Len(calls) < MaxPlayCalls /\ PlaySound(c, n)
    \/ \E k \in Calls : ResumeResolve(k)
    \/ \E k \in Calls : ResumeReject(k)
    \/ GetSharedResumed
    \/ AcquireOutputResumed
    \/ SetVolumeResumed
    \/ PlaySoundResumed

SpecPlay == Init /\ [][NextPlay]_vars

\* One Controller: a sound registered, then volume changes and playback
\* interleaved, three calls deep.
NextVolumePlay ==
    \/ StartFirst
    \/ \E c \in Controllers :
           controllers[c].keys = <<>> /\ AddSound(c, "coin", "s1")
    \/ \E c \in Controllers, v \in {0, 5} :
           Len(calls) < MaxCalls /\ SetVolume(c, v)
    \/ \E c \in Controllers :
           Len(calls) < MaxCalls /\ PlaySound(c, "coin")
    \/ \E k \in Calls : ResumeResolve(k)
    \/ \E k \in Calls : ResumeReject(k)
    \/ GetSharedResumed
    \/ AcquireOutputResumed
    \/ SetVolumeResumed
    \/ PlaySoundResumed

SpecVolumePlay == Init /\ [][NextVolumePlay]_vars

\* Several Controllers, on one window or on two, acquiring concurrently,
\* with contexts closed from outside.
NextShared ==
    \/ \E w \in Windows : Start(w)
    \/ \E c \in Controllers : Len(calls) < MaxSharedCalls /\ AcquireOutput(c)
    \/ \E k \in Calls : ResumeResolve(k)
    \/ \E k \in Calls : ResumeReject(k)
    \/ \E i \in Contexts : CloseContext(i)
    \/ GetSharedResumed
    \/ AcquireOutputResumed
    \/ AcquireOutputReturned

SpecShared == Init /\ [][NextShared]_vars

\* One Controller: the registry and the stop operations, interleaved with
\* acquisition, volume, playback and the analysis setter.
NextRegistry ==
    \/ StartFirst
    \/ \E c \in Controllers, v \in {"s1", Null} : AddSound(c, "coin", v)
    \/ \E c \in Controllers, n \in Names : GetSound(c, n)
    \/ \E c \in Controllers : ListSounds(c)
    \/ \E c \in Controllers, n \in Names : RemoveSound(c, n)
    \/ \E c \in Controllers, n \in Names : StopSound(c, n)
    \/ \E c \in Controllers : StopAllSounds(c)
    \/ \E c \in Controllers : SetAnalysis(c, 1)
    \/ \E c \in Controllers :
           Len(calls) < MaxRegistryCalls /\ AcquireOutput(c)
    \/ \E c \in Controllers :
           Len(calls) < MaxRegistryCalls /\ SetVolume(c, 5)
    \/ \E c \in Controllers, n \in Names :
           Len(calls) < MaxRegistryCalls /\ PlaySound(c, n)
    \/ \E k \in Calls : ResumeResolve(k)
    \/ \E k \in Calls : ResumeReject(k)
    \/ GetSharedResumed
    \/ AcquireOutputResumed
    \/ AcquireOutputReturned
    \/ SetVolumeResumed
    \/ PlaySoundResumed

SpecRegistry == Init /\ [][NextRegistry]_vars

\* One Controller: analysis nodes set and replaced, before and after the
\* Output exists, with acquisition and volume changes in between.
NextAnalysis ==
    \/ StartFirst
    \/ \E c \in Controllers, node \in AnalysisNodes : SetAnalysis(c, node)
    \/ \E c \in Controllers :
           Len(calls) < MaxAnalysisCalls /\ AcquireOutput(c)
    \/ \E c \in Controllers :
           Len(calls) < MaxAnalysisCalls /\ SetVolume(c, 5)
    \/ \E k \in Calls : ResumeResolve(k)
    \/ \E k \in Calls : ResumeReject(k)
    \/ GetSharedResumed
    \/ AcquireOutputResumed
    \/ AcquireOutputReturned
    \/ SetVolumeResumed

SpecAnalysis == Init /\ [][NextAnalysis]_vars

\* One Controller of the revision with enableVisualization: visualization
\* enabled and disabled, with acquisitions in between.
NextVisualization ==
    \/ StartFirst
    \/ \E c \in Controllers :
           Len(calls) < MaxVisualizationCalls /\ EnableVisualization(c)
    \/ \E c \in Controllers :
           Len(calls) < MaxVisualizationCalls /\ AcquireOutput(c)
    \/ \E c \in Controllers : DisableVisualization(c)
    \/ \E k \in Calls : ResumeResolve(k)
    \/ \E k \in Calls : ResumeReject(k)
    \/ GetSharedResumed
    \/ AcquireOutputResumedUnconnected
    \/ AcquireOutputReturned
    \/ EnableVisualizationResumed

SpecVisualization == Init /\ [][NextVisualization]_vars

\* The platform settles the resume() promise call k waits on, one way or
\* the other.
Settle(k) == k \in Calls /\ (ResumeResolve(k) \/ ResumeReject(k))

\* One Controller: the three async operations, with a sound added and the
\* sounds stopped in between.
NextLive ==
    \/ StartFirst
    \/ \E c \in Controllers :
           controllers[c].keys = <<>> /\ AddSound(c, "coin", "s1")
    \/ \E c \in Controllers : StopAllSounds(c)
    \/ \E c \in Controllers : Len(calls) < MaxLiveCalls /\ AcquireOutput(c)
    \/ \E c \in Controllers : Len(calls) < MaxLiveCalls /\ SetVolume(c, 5)
    \/ \E c \in Controllers :
           Len(calls) < MaxLiveCalls /\ PlaySound(c, "coin")
    \/ \E k \in Calls : Settle(k)
    \/ RunMicrotask

\* The event loop serves the microtask queue, and every resume() promise is
\* eventually settled.
SpecLive ==
    /\ Init
    /\ [][NextLive]_vars
    /\ WF_vars(RunMicrotask)
    /\ \A k \in 1..(MaxLiveCalls + 1) : WF_vars(Settle(k))

\* One Controller constructed with both lifecycle callbacks: acquisition
\* and disposal.
NextLifecycle ==
    \/ StartFirst
    \/ \E c \in Controllers :
           Len(calls) < MaxLifecycleCalls /\ AcquireOutput(c)
    \/ \E c \in Controllers : Dispose(c)
    \/ \E k \in Calls : ResumeResolve(k)
    \/ \E k \in Calls : ResumeReject(k)
    \/ GetSharedResumed
    \/ AcquireOutputResumedNotifying
    \/ AcquireOutputReturned

SpecLifecycle == Init /\ [][NextLifecycle]_vars

\* Controllers on one window, acquiring and being disposed; nothing outside
\* the library touches the contexts.
NextRelease ==
    \/ Start("w1")
    \/ \E c \in Controllers :
           Len(calls) < MaxReleaseCalls /\ AcquireOutput(c)
    \/ \E c \in Controllers : Dispose(c)
    \/ \E k \in Calls : ResumeResolve(k)
    \/ \E k \in Calls : ResumeReject(k)
    \/ GetSharedResumed
    \/ AcquireOutputResumedNotifying
    \/ AcquireOutputReturned

SpecRelease == Init /\ [][NextRelease]_vars

\* ------------------------------------------------------------ claims -----

\* The acquireOutput() calls of controller c that resolved to an Output.
Acquired(c) ==
    {k \in Calls : /\ calls[k].kind = "acquireOutput"
                   /\ calls[k].c = c
                   /\ calls[k].pc = "done"
                   /\ calls[k].output # 0}

\* The Outputs constructed by controller c.
OutputsOf(c) == {o \in Outputs : outputs[o].owner = c}

\* The contexts constructed for window w.
ContextsOf(w) == {i \in Contexts : contexts[i].window = w}

\* No acquisition failed so far.
NoFailure == \A k \in Calls : ~calls[k].ctxFailed

\* C1: a Controller constructs at most one Output, and two acquireOutput()
\* calls of which the second was issued while the first was pending resolve
\* to the same Output.
C1_OneOutputPerController ==
    \A c \in Controllers :
        /\ Cardinality(OutputsOf(c)) <= 1
        /\ \A j, k \in Acquired(c) :
               j \in calls[k].pendingAtCall =>
                   calls[j].output = calls[k].output

\* C2: as long as no context was closed and no acquisition failed, at most
\* one context is constructed per window, whoever acquires and whenever.
C2_OneContextPerWindow ==
    (~everClosed /\ NoFailure) =>
        \A w \in Windows : Cardinality(ContextsOf(w)) <= 1

\* C3: all acquireOutput() calls of one Controller that resolved to an
\* Output resolved to the same Output.
C3_StableOutput ==
    \A c \in Controllers : \A j, k \in Acquired(c) :
        calls[j].output = calls[k].output

\* C4: with no context closed, two Controllers on one window that both hold
\* an Output hold Outputs of the same context.
C4_SharedContext ==
    ~everClosed =>
        \A c, d \in Controllers :
            (/\ controllers[c].window = controllers[d].window
             /\ controllers[c].output # 0
             /\ controllers[d].output # 0)
            => outputs[controllers[c].output].audioContext
                   = outputs[controllers[d].output].audioContext

\* C5: whenever a Controller has an Output, the Output's gain is the
\* Controller's stored volume.
C5_GainMirrorsVolume ==
    \A c \in Controllers :
        controllers[c].output # 0 =>
            outputs[controllers[c].output].gain = controllers[c].volume

\* C6: an acquireOutput() issued after a setVolume(v) that found no Output,
\* with the stored volume still v when it resolves, resolves to an Output of
\* gain v; and a setVolume(w) issued on a Controller that has an Output
\* leaves, when it completes with w still stored, the Controller's Output
\* at gain w.
C6_VolumePersists ==
    \A k \in Calls :
        /\ (/\ calls[k].kind = "acquireOutput"
            /\ calls[k].pc = "done"
            /\ calls[k].output # 0
            /\ calls[k].afterSet
            /\ calls[k].volAtRet = calls[k].volAtCall)
           => calls[k].resGain = calls[k].volAtCall
        /\ (/\ calls[k].kind = "setVolume"
            /\ calls[k].pc = "done"
            /\ calls[k].hadOutput
            /\ calls[k].volAtRet = calls[k].volume)
           => calls[k].resGain = calls[k].volume

\* C7: a playSound(name) called while the stored volume is at most 0 ends
\* at once and never invokes play, whatever is registered under name.
C7_MutedNeverPlays ==
    \A k \in Calls :
        (calls[k].kind = "playSound" /\ calls[k].volAtCall <= 0)
        => /\ ~calls[k].played
           /\ calls[k].pc = "done"

\* C7 witness: a playSound of a registered sound, called at a volume of at
\* most 0, has ended.
C7_Witness ==
    \E k \in Calls :
        /\ calls[k].kind = "playSound"
        /\ calls[k].volAtCall <= 0
        /\ calls[k].registered
        /\ calls[k].pc = "done"

\* C8: a playSound(name) for a name never added does not throw and acquires
\* nothing: it is over at once, with no context and no Output of its own
\* (stated for the platforms where a context can be obtained).
C8_UnknownNameIsNoOp ==
    \A k \in Calls :
        (calls[k].kind = "playSound" /\ calls[k].neverAdded
            /\ ~calls[k].ctxFailed)
        => /\ ~calls[k].threw
           /\ calls[k].pc = "done"
           /\ calls[k].audioContext = 0
           /\ calls[k].output = 0

\* C9: an acquireOutput() that could obtain no context resolves to null and
\* does not throw.
C9_SoftFailure ==
    \A k \in Calls :
        (calls[k].kind = "acquireOutput" /\ calls[k].ctxFailed)
        => /\ ~calls[k].threw
           /\ calls[k].pc = "done"
           /\ calls[k].output = 0

\* C10: a playSound or setVolume whose acquisition failed does not throw;
\* the playSound plays nothing and the setVolume's value was stored.
C10_DependentsDegrade ==
    \A k \in Calls :
        (calls[k].kind \in {"playSound", "setVolume"} /\ calls[k].ctxFailed)
        => /\ ~calls[k].threw
           /\ ~calls[k].played
           /\ calls[k].pc = "done"

\* The contexts whose construction ended in a failed acquisition.
FailedContexts ==
    {calls[k].audioContext : k \in {j \in Calls : calls[j].ctxFailed}} \ {0}

\* C11: a failed acquireOutput() retains nothing: it has no Output, and the
\* context it failed on is neither cached under the window nor wrapped by
\* any Output; and an acquireOutput() issued after a failure of the same
\* Controller that does obtain a context resolves to an Output built on a
\* context that did not fail.
C11_FailureIsRetryable ==
    /\ \A k \in Calls : calls[k].ctxFailed => calls[k].output = 0
    /\ \A w \in Windows : liveAudioContext[w] \notin FailedContexts
    /\ \A o \in Outputs : outputs[o].audioContext \notin FailedContexts
    /\ \A k \in Calls :
           (/\ calls[k].kind = "acquireOutput"
            /\ calls[k].afterFailure
            /\ calls[k].pc = "done"
            /\ ~calls[k].ctxFailed)
           => /\ calls[k].output # 0
              /\ controllers[calls[k].c].output # 0
              /\ contexts[outputs[calls[k].output].audioContext].state
                     = "running"

\* C11 witness: an acquireOutput() issued after a failed one of the same
\* Controller has resolved to an Output.
C11_Witness ==
    \E k \in Calls :
        /\ calls[k].kind = "acquireOutput"
        /\ calls[k].afterFailure
        /\ calls[k].pc = "done"
        /\ calls[k].output # 0

\* name is one of the names of seq.
Listed(seq, name) == \E i \in 1..Len(seq) : seq[i] = name

\* C12: removeSound(name) returns true exactly when name was an entry of the
\* registry just before, whatever was stored under it; afterwards
\* listSounds() does not contain name and every other entry is as it was.
C12_RemoveSound ==
    [][\A c \in Controllers, n \in Names :
           RemoveSound(c, n) =>
               /\ controllers'[c].last.result
                      = Listed(controllers[c].keys, n)
               /\ ~Listed(controllers'[c].keys, n)
               /\ \A m \in Names \ {n} :
                      controllers'[c].sounds[m] = controllers[c].sounds[m]]_vars

\* C13: addSound(name, sound) stores sound under name and returns it:
\* afterwards the read of name yields sound, name is listed exactly once and
\* every other entry is as it was; and getSound of a name never added
\* returns an absent value.
C13_AddAndGetSound ==
    [][\A c \in Controllers, n \in Names :
           /\ \A v \in Sounds \cup {Null} :
                  AddSound(c, n, v) =>
                      /\ controllers'[c].last.value = v
                      /\ Lookup(controllers'[c].sounds, n) = v
                      /\ Cardinality({i \in 1..Len(controllers'[c].keys) :
                                         controllers'[c].keys[i] = n}) = 1
                      /\ \A m \in Names \ {n} :
                             controllers'[c].sounds[m]
                                 = controllers[c].sounds[m]
           /\ (GetSound(c, n) /\ n \notin controllers[c].everAdded) =>
                  controllers'[c].last.value = Undefined]_vars

\* The entries <<c, o>> for the Outputs controller c constructed, in order.
CreationsOf(c) ==
    LET os == SelectSeq([o \in 1..Len(outputs) |-> o],
                        LAMBDA o : outputs[o].owner = c)
    IN  [i \in 1..Len(os) |-> <<c, os[i]>>]

\* C14: onOutputCreated is invoked once per Output the Controller
\* constructs, with the Controller and that Output, never before the
\* Controller's first acquireOutput(), and before an acquireOutput()
\* resolves to that Output.
C14_CreatedCallback ==
    \A c \in Controllers :
        /\ controllers[c].created = CreationsOf(c)
        /\ (\A k \in Calls : calls[k].c # c) => controllers[c].created = <<>>
        /\ \A k \in Acquired(c) :
               Listed(controllers[c].created, <<c, calls[k].output>>)

\* C14 witness: an acquireOutput() has resolved to an Output that the
\* callback was invoked with, and the Controller has constructed a second
\* Output since.
C14_Witness ==
    \E c \in Controllers :
        /\ Len(controllers[c].created) >= 2
        /\ \E k \in Acquired(c) :
               controllers[c].created[1] = <<c, calls[k].output>>

\* The Outputs the onOutputDisposed callback of controller c was given.
DisposedOf(c) ==
    {controllers[c].disposed[i][2] : i \in 1..Len(controllers[c].disposed)}

\* C15: dispose() with a live Output invokes onOutputDisposed once, with the
\* Controller and that Output, and releases the Output; with no live Output
\* (a second dispose included) it invokes nothing; it never throws.  So no
\* Output is announced twice, an announced Output is no longer held, and
\* nothing is announced while the Controller has constructed no Output.
C15_DisposeIdempotent ==
    \A c \in Controllers :
        /\ \A i, j \in 1..Len(controllers[c].disposed) :
               controllers[c].disposed[i] = controllers[c].disposed[j] => i = j
        /\ \A i \in 1..Len(controllers[c].disposed) :
               /\ controllers[c].disposed[i][1] = c
               /\ controllers[c].disposed[i][2] \in OutputsOf(c)
        /\ controllers[c].output \notin DisposedOf(c)
        /\ controllers[c].last.op = "dispose" =>
               /\ ~controllers[c].last.threw
               /\ controllers[c].last.result => controllers[c].disposed # <<>>
        /\ OutputsOf(c) = {} => controllers[c].disposed = <<>>

\* C15 witness: a dispose() found no live Output after an earlier dispose()
\* had released one.
C15_Witness ==
    \E c \in Controllers :
        /\ controllers[c].last.op = "dispose"
        /\ ~controllers[c].last.result
        /\ Len(controllers[c].disposed) = 1

\* C16: a playSound(name) of a registered sound, called at a stored volume
\* v > 0 that is still stored when the acquisition has succeeded, invokes
\* play, handing it an Output whose gain is v.
C16_PlayHandsVolume ==
    \A k \in Calls :
        (/\ calls[k].kind = "playSound"
         /\ calls[k].registered
         /\ calls[k].volAtCall > 0
         /\ calls[k].pc = "done"
         /\ calls[k].output # 0
         /\ calls[k].volAtRet = calls[k].volAtCall)
        => /\ calls[k].played
           /\ calls[k].resGain = calls[k].volAtCall

\* The setVolume calls of controller c, in the order they were issued.
SetVolumeCalls(c) ==
    SelectSeq([k \in 1..Len(calls) |-> k],
              LAMBDA k : calls[k].kind = "setVolume" /\ calls[k].c = c)

\* C17: the stored volume is 1.0 until the first setVolume and from then on
\* the argument of the latest setVolume, whether that call is still
\* pending, failed or completed, and whatever else was called since.
C17_VolumeIndependent ==
    \A c \in Controllers :
        controllers[c].volume =
            IF SetVolumeCalls(c) = <<>> THEN InitialVolume
            ELSE calls[SetVolumeCalls(c)[Len(SetVolumeCalls(c))]].volume

\* C17 witness: the volume of a setVolume whose acquisition failed is
\* stored, with no Output, after another operation has run.
C17_Witness ==
    \E c \in Controllers, k \in Calls :
        /\ calls[k].kind = "setVolume"
        /\ calls[k].c = c
        /\ calls[k].ctxFailed
        /\ controllers[c].output = 0
        /\ controllers[c].volume = calls[k].volume
        /\ controllers[c].volume # InitialVolume
        /\ controllers[c].last.op = "stopAllSounds"
        /\ controllers[c].analysis # 0

\* Call k went into Output acquisition: it is suspended in it, or came out
\* of it with a context, an Output, or a failure.
Attempted(k) ==
    \/ calls[k].pc # "done"
    \/ calls[k].audioContext # 0
    \/ calls[k].output # 0
    \/ calls[k].ctxFailed

\* C18: every setVolume(v) goes into Output acquisition, v = 0 included: a
\* completed one either failed to obtain a context or was given an Output,
\* and the only setVolume of a Controller, of a v of at most 0, leaves the
\* Controller with an Output whose gain is v.  A playSound called at a
\* stored volume of at most 0 does not: it is over with no context, no
\* Output and no failure.
C18_MuteAsymmetry ==
    \A k \in Calls :
        /\ calls[k].kind = "setVolume" =>
               /\ Attempted(k)
               /\ calls[k].pc = "done" =>
                      (calls[k].ctxFailed \/ calls[k].output # 0)
        /\ (/\ calls[k].kind = "setVolume"
            /\ calls[k].volume <= 0
            /\ calls[k].pc = "done"
            /\ ~calls[k].ctxFailed
            /\ SetVolumeCalls(calls[k].c) = <<k>>)
           => /\ controllers[calls[k].c].output # 0
              /\ outputs[controllers[calls[k].c].output].gain = calls[k].volume
              /\ outputs[calls[k].output].gain = calls[k].volume
        /\ (calls[k].kind = "playSound" /\ calls[k].volAtCall <= 0)
           => /\ calls[k].pc = "done"
              /\ calls[k].audioContext = 0
              /\ calls[k].output = 0
              /\ ~calls[k].ctxFailed

\* C18 witness: a setVolume(0) on a Controller with no Output completed with
\* an Output, and a playSound of a registered sound called at volume 0 is
\* over.
C18_Witness ==
    \E j, k \in Calls :
        /\ calls[j].kind = "setVolume"
        /\ calls[j].volume = 0
        /\ ~calls[j].hadOutput
        /\ calls[j].pc = "done"
        /\ calls[j].output # 0
        /\ calls[k].kind = "playSound"
        /\ calls[k].volAtCall = 0
        /\ calls[k].registered
        /\ calls[k].pc = "done"

\* C19, as stated: every playSound(name) called at a stored volume above 0
\* goes into Output acquisition, a sound registered under name or not.
C19_AlwaysAcquires ==
    \A k \in Calls :
        (calls[k].kind = "playSound" /\ calls[k].volAtCall > 0)
        => Attempted(k)

\* C19, amended: a playSound(name) called at a stored volume above 0 goes
\* into Output acquisition exactly when the read this.#sounds[name] yields a
\* sound or a function inherited from the prototype; when it yields nothing
\* or a falsy value the call is over at once, with no context and no Output.
C19_AcquiresWhenFound ==
    \A k \in Calls :
        (calls[k].kind = "playSound" /\ calls[k].volAtCall > 0)
        => /\ Attempted(k) <=> calls[k].sound \in Sounds \cup {ProtoFn}
           /\ calls[k].sound \in {Undefined, Null} =>
                  /\ calls[k].pc = "done"
                  /\ ~calls[k].played
                  /\ ~calls[k].threw

\* C19 witness: a playSound of a name with nothing registered under it,
\* called at a volume above 0, is over without any acquisition.
C19_Witness ==
    \E k \in Calls :
        /\ calls[k].kind = "playSound"
        /\ calls[k].volAtCall > 0
        /\ calls[k].sound = Undefined
        /\ calls[k].pc = "done"
        /\ ~Attempted(k)

\* The synchronous operations of the registry and of stopping.
SyncOps ==
    {"stopSound", "stopAllSounds", "getSound", "listSounds", "removeSound",
     "addSound"}

\* C20: a step in which stopSound, stopAllSounds, getSound, listSounds,
\* removeSound or addSound ran is complete in that step (no call frame and
\* no microtask is left behind) and touches no Output: no context and no
\* Output is constructed, no gain and no analysis attachment changes, and
\* the Controller holds the Output it held.
C20_SyncOpsLeaveOutput ==
    [][\A c \in Controllers :
           (/\ controllers'[c].last # controllers[c].last
            /\ controllers'[c].last.op \in SyncOps)
           => /\ UNCHANGED <<contexts, outputs, liveAudioContext, calls,
                             microtasks>>
              /\ controllers'[c].output = controllers[c].output
              /\ controllers'[c].analysis = controllers[c].analysis]_vars

\* C20 witness: a stopSound of a registered sound ran while the only call,
\* an acquireOutput(), was and still is waiting for its context to resume.
C20_Witness ==
    \E c \in Controllers :
        /\ controllers[c].last.op = "stopSound"
        /\ controllers[c].last.stopped # {}
        /\ controllers[c].last.pending
        /\ Len(calls) = 1
        /\ calls[1].kind = "acquireOutput"
        /\ calls[1].pc = "resume"

\* The values stored in the registry of controller c.
Registered(c) ==
    {controllers[c].sounds[controllers[c].keys[i]] :
         i \in 1..Len(controllers[c].keys)}

\* C21: stopAllSounds() stops every value of the registry, leaves the
\* registry as it is and does not throw; stopSound(name) stops the value
\* registered under name and nothing else, and with nothing registered
\* under name it stops nothing and does not throw.
C21_StopOperations ==
    [][\A c \in Controllers :
           /\ StopAllSounds(c) =>
                  /\ controllers'[c].last.stopped = Registered(c)
                  /\ ~controllers'[c].last.threw
                  /\ controllers'[c].sounds = controllers[c].sounds
                  /\ controllers'[c].keys = controllers[c].keys
           /\ \A n \in Names :
                  StopSound(c, n) =>
                      /\ controllers'[c].last.stopped =
                             IF Listed(controllers[c].keys, n)
                             THEN {controllers[c].sounds[n]} ELSE {}
                      /\ ~controllers'[c].last.threw
                      /\ controllers'[c].sounds = controllers[c].sounds]_vars

\* C22: whenever a Controller has an Output and an analysis node, that node
\* is what the Output has attached: a node set while the Output exists is
\* connected at once, in place of the one before, and a node set earlier is
\* connected when acquireOutput constructs the Output.
C22_AnalysisInSync ==
    \A c \in Controllers :
        (controllers[c].output # 0 /\ controllers[c].analysis # 0)
        => outputs[controllers[c].output].analysisNode
               = controllers[c].analysis

\* C22 witness: the analysis setter ran on a Controller that had an Output,
\* whose attachment is now the second node.
C22_Witness ==
    \E c \in Controllers :
        /\ controllers[c].last.op = "setAnalysis"
        /\ controllers[c].last.result
        /\ controllers[c].analysis = 2
        /\ outputs[controllers[c].output].analysisNode = 2

\* C23: when an enableVisualization() has connected its node, the
\* Controller's Output has a node attached; a disableVisualization() leaves
\* the Controller's Output, if there is one, with none attached, and with
\* no Output or nothing attached it changes nothing, does not throw and
\* constructs no Output.
C23_EnableDisable ==
    [][(EnableVisualizationResumed =>
            LET k == Head(microtasks)
            IN  calls'[k].visualizer # 0 =>
                    outputs'[controllers'[calls[k].c].output].analysisNode
                        # 0)
       /\
       (\A c \in Controllers :
            DisableVisualization(c) =>
                /\ ~controllers'[c].last.threw
                /\ controllers'[c].output = controllers[c].output
                /\ Len(outputs') = Len(outputs)
                /\ controllers[c].output # 0 =>
                       outputs'[controllers[c].output].analysisNode = 0
                /\ (\/ controllers[c].output = 0
                    \/ outputs[controllers[c].output].analysisNode = 0)
                   => UNCHANGED outputs)]_vars

\* C30: a Controller constructs at most one Visualizer, however many
\* enableVisualization() calls it gets and however they interleave; and an
\* enableVisualization() that connects a node connects that one Visualizer,
\* to the Output the call acquired.
C30_OneVisualizer ==
    [][(\A c \in Controllers : controllers'[c].visualizers <= 1)
       /\
       (EnableVisualizationResumed =>
            LET k == Head(microtasks)
            IN  calls'[k].visualizer # 0 =>
                    /\ calls'[k].visualizer = 1
                    /\ controllers'[calls[k].c].analysis = 1
                    /\ outputs'[calls[k].output].analysisNode = 1)]_vars

\* C30 witness: two enableVisualization() calls, both issued before the
\* Controller had an Output, have both connected the Visualizer.
C30_Witness ==
    \E j, k \in Calls :
        /\ j # k
        /\ calls[j].kind = "enableVisualization"
        /\ calls[k].kind = "enableVisualization"
        /\ ~calls[j].hadOutput
        /\ ~calls[k].hadOutput
        /\ calls[j].pc = "done"
        /\ calls[k].pc = "done"
        /\ calls[j].visualizer = 1
        /\ calls[k].visualizer = 1

\* The calls to which the provider returns a context in this step.
ReturnedInStep ==
    {k \in 1..Len(calls') :
         /\ calls'[k].pc = "acq"
         /\ (k > Len(calls) \/ calls[k].pc # "acq")}

\* C24: the context cached for a window is replaced only when it is unset
\* or closed; an acquisition that finds the cached context closed is given
\* a new one, which is cached when it is returned; and no context is closed
\* at the moment the provider returns it or an Output is constructed on it.
C24_ReplaceWhenClosed ==
    [][(\A w \in Windows :
            liveAudioContext'[w] # liveAudioContext[w] =>
                NeedsNewContext(liveAudioContext[w]))
       /\
       (\A k \in ReturnedInStep :
            /\ contexts'[calls'[k].audioContext].state # "closed"
            /\ liveAudioContext'[controllers[calls'[k].c].window]
                   = calls'[k].audioContext)
       /\
       (\A o \in 1..Len(outputs') :
            o > Len(outputs) =>
                contexts[outputs'[o].audioContext].state # "closed")]_vars

\* C25: with only Controllers acting, no context is ever closed: whatever
\* the Controllers of a window acquire, set or dispose, every context stays
\* open, so every Output a Controller holds is built on an open context.
C25_NeverClosedByController ==
    /\ \A i \in Contexts : contexts[i].state # "closed"
    /\ ~everClosed
    /\ \A c \in Controllers :
           controllers[c].output # 0 =>
               contexts[outputs[controllers[c].output].audioContext].state
                   # "closed"

\* C25 witness: one Controller disposed its Output while another Controller
\* of the window holds an Output on the same context, which is running.
C25_Witness ==
    \E c, d \in Controllers :
        /\ c # d
        /\ controllers[c].last.op = "dispose"
        /\ controllers[c].last.result
        /\ controllers[d].output # 0
        /\ outputs[controllers[d].output].audioContext
               = outputs[controllers[c].disposed[1][2]].audioContext
        /\ contexts[outputs[controllers[d].output].audioContext].state
               = "running"

\* Controller c has no setVolume and no acquireOutput call in flight.
Quiescent(c) ==
    \A k \in Calls :
        (calls[k].c = c /\ calls[k].kind \in {"setVolume", "acquireOutput"})
        => calls[k].pc = "done"

\* C26: whenever a Controller has an Output and none of its setVolume and
\* acquireOutput calls is in flight, the Output's gain is the stored volume,
\* in whatever order the resumptions and the suspended calls completed.
C26_QuiescentGain ==
    \A c \in Controllers :
        (Quiescent(c) /\ controllers[c].output # 0)
        => outputs[controllers[c].output].gain = controllers[c].volume

\* C27: play is never invoked while the stored volume is at most 0: the
\* stored volume at the moment a playSound invoked play was above 0.
C27_NoPlayWhileMuted ==
    \A k \in Calls :
        (calls[k].kind = "playSound" /\ calls[k].played)
        => calls[k].volAtRet > 0

\* C28: the Output a playSound handed to play is, from then on, the Output
\* the Controller references.
C28_PlaysIntoCurrentOutput ==
    \A k \in Calls :
        (calls[k].kind = "playSound" /\ calls[k].played)
        => controllers[calls[k].c].output = calls[k].output

\* C29: with every resume() promise eventually settled, every acquireOutput,
\* playSound and setVolume call issued eventually completes; and no step of
\* these operations, of the stop operations or of the registry takes a
\* Controller that has an Output back to having none.
C29_CallsCompleteOutputStays ==
    /\ \A k \in 1..(MaxLiveCalls + 1) :
           (k \in Calls) ~> (k \in Calls /\ calls[k].pc = "done")
    /\ [][\A c \in Controllers :
              controllers[c].output # 0 => controllers'[c].output # 0]_vars

\* C29 witness: a call whose resume() was rejected has completed, and so
\* has a playSound that played into an Output the Controller still has.
C29_Witness ==
    \E j, k \in Calls :
        /\ calls[j].pc = "done"
        /\ calls[j].ctxFailed
        /\ calls[j].audioContext # 0
        /\ calls[k].kind = "playSound"
        /\ calls[k].pc = "done"
        /\ calls[k].played
        /\ controllers[calls[k].c].output # 0

====
